---- MODULE Spec2Model ----
(***************************************************************************)
(* Model of scripts/compare_checksums.py: the build locator (find_builds), *)
(* the checksum collector (compare_checksums), the inconsistency detector  *)
(* (find_inconsistencies), the report generator (generate_report) and the  *)
(* driver (main).                                                          *)
(*                                                                         *)
(* Python strings that the code inspects (paths, directory names, build    *)
(* identifiers) are sequences of one-character strings.  Python dicts are  *)
(* sequences of [k |-> key, v |-> value] records in insertion order.       *)
(***************************************************************************)
EXTENDS Naturals, Integers, Sequences, FiniteSets, TLC

\* ------------------------------------------------------------------ bounds

\* Largest number of regular files in the whole records tree.
MaxFiles == 2

\* Number of build identifiers the detector-only specification draws from.
NumIds == 3

\* ----------------------------------------------------------------- strings

Letters == <<"a","b","c","d","e","f","g","h","i","j","k","l","m",
             "n","o","p","q","r","s","t","u","v","w","x","y","z">>

Digits == <<"0","1","2","3","4","5","6","7","8","9">>

DigitSet == {Digits[i] : i \in 1..Len(Digits)}

IndexIn(seq, c) == CHOOSE i \in 1..Len(seq) : seq[i] = c

\* ord(c) for the characters the model uses.
CodePoint(c) ==
    CASE c = "-" -> 45
      [] c = "." -> 46
      [] c = "/" -> 47
      [] c \in DigitSet -> 47 + IndexIn(Digits, c)
      [] OTHER -> 96 + IndexIn(Letters, c)

\* Python's < on str: lexicographic by code point, a proper prefix is
\* smaller.  The strings are compared at the first position they differ at.
StrLess(a, b) ==
    LET n == IF Len(a) < Len(b) THEN Len(a) ELSE Len(b)
        diff == {i \in 1..n : a[i] # b[i]}
    IN  IF diff = {} THEN Len(a) < Len(b)
        ELSE LET i == CHOOSE i \in diff : \A j \in diff : i <= j
             IN  CodePoint(a[i]) < CodePoint(b[i])

\* str.startswith
StartsWith(s, p) == Len(s) >= Len(p) /\ SubSeq(s, 1, Len(p)) = p

\* str.replace(old, new) for a non-empty old: every non-overlapping
\* occurrence, scanned left to right.
RECURSIVE StrReplace(_, _, _)
StrReplace(s, old, new) ==
    IF s = <<>> THEN <<>>
    ELSE IF StartsWith(s, old)
         THEN new \o StrReplace(SubSeq(s, Len(old) + 1, Len(s)), old, new)
         ELSE <<Head(s)>> \o StrReplace(Tail(s), old, new)

\* p.rfind("/") + 1: the position of the last "/" of p, 0 when there is none.
LastSlash(p) ==
    LET slashes == {i \in 1..Len(p) : p[i] = "/"}
    IN  IF slashes = {} THEN 0
        ELSE CHOOSE i \in slashes : \A j \in slashes : j <= i

\* os.path.basename
Basename(p) == SubSeq(p, LastSlash(p) + 1, Len(p))

\* os.path.dirname
Dirname(p) == SubSeq(p, 1, LastSlash(p) - 1)

\* Path q is an immediate child of directory d: os.path.dirname(q) = d.
IsChildOf(q, d) ==
    /\ StartsWith(q, d \o <<"/">>)
    /\ \A i \in (Len(d) + 2)..Len(q) : q[i] # "/"

\* os.path.join(a, b) for a relative b
PathJoin(a, b) == a \o <<"/">> \o b

\* insertion of x into an ascending list, after the elements not greater
RECURSIVE InsertSorted(_, _)
InsertSorted(x, seq) ==
    IF seq = <<>> THEN <<x>>
    ELSE IF StrLess(x, Head(seq)) THEN <<x>> \o seq
    ELSE <<Head(seq)>> \o InsertSorted(x, Tail(seq))

\* sorted(list of str)
RECURSIVE Sorted(_)
Sorted(seq) ==
    IF seq = <<>> THEN <<>>
    ELSE InsertSorted(seq[Len(seq)], Sorted(SubSeq(seq, 1, Len(seq) - 1)))

\* Some enumeration of a set (the iteration order of a Python set).
RECURSIVE SetToSeq(_)
SetToSeq(S) ==
    IF S = {} THEN <<>>
    ELSE LET x == CHOOSE y \in S : TRUE IN <<x>> \o SetToSeq(S \ {x})

SeqToSet(seq) == {seq[i] : i \in 1..Len(seq)}

\* ------------------------------------------------------------------- dicts

DictKeys(d) == {d[i].k : i \in 1..Len(d)}

DictHas(d, key) == key \in DictKeys(d)

DictGet(d, key) == d[CHOOSE i \in 1..Len(d) : d[i].k = key].v

\* d[key] = val: a new key goes last, an old key keeps its position.
DictSet(d, key, val) ==
    IF DictHas(d, key)
    THEN [i \in 1..Len(d) |-> IF d[i].k = key THEN [k |-> key, v |-> val] ELSE d[i]]
    ELSE Append(d, [k |-> key, v |-> val])

\* list(d.keys())
DictKeyList(d) == [i \in 1..Len(d) |-> d[i].k]

\* set(d.values())
DictValues(d) == {d[i].v : i \in 1..Len(d)}

\* defaultdict(dict)[key]: the stored dict, an empty one for a new key.
DefaultGet(d, key) == IF DictHas(d, key) THEN DictGet(d, key) ELSE <<>>

\* table[path][build] = val on a defaultdict(dict)
TableSet(table, path, build, val) ==
    DictSet(table, path, DictSet(DefaultGet(table, path), build, val))

\* ---------------------------------------------------- names of the layout

\* The prefix of a build directory's name (lines 42, 59, 125).
BuildPrefix == <<"b","u","i","l","d","-">>

\* The three watched output directories (lines 62, 70, 78).
DistFirefox == <<"d","i","s","t","-","f","i","r","e","f","o","x">>

DistChrome == <<"d","i","s","t","-","c","h","r","o","m","e">>

DistZip == <<"d","i","s","t","-","z","i","p">>

\* A directory of a build root that is not an output directory.
OtherDir == <<"s","r","c">>

\* The records root and the requested version of the run.
RecordsRoot == <<"r">>

Version == <<"1",".","0">>

\* Candidate names of the children of the version directory.
ChildNames ==
    { BuildPrefix \o <<"1">>,
      BuildPrefix \o <<"2">>,
      BuildPrefix \o BuildPrefix \o <<"1">>,
      <<"x">> \o BuildPrefix \o <<"1">> }

\* Candidate places of a regular file, relative to a build root: one file
\* in each directory, and in dist-zip a second file and a file in a
\* subdirectory.
RelFiles ==
    { PathJoin(DistFirefox, <<"a">>),
      PathJoin(DistChrome, <<"a">>),
      PathJoin(DistZip, <<"a">>),
      PathJoin(DistZip, <<"b">>),
      PathJoin(DistZip, PathJoin(<<"s","u","b">>, <<"a">>)),
      PathJoin(OtherDir, <<"a">>) }

\* Candidate file contents (byte strings), of different lengths.
Contents == { <<0>>, <<0, 0>> }

\* The candidate places whose content differs from tree to tree; a file
\* at any other place holds the single byte.
VaryingFiles ==
    { PathJoin(DistFirefox, <<"a">>),
      PathJoin(DistChrome, <<"a">>),
      PathJoin(DistZip, <<"a">>) }

\* ------------------------------------------------------------- the program

VARIABLES
    fsDirs,             \* the directories that exist
    fsFiles,            \* the regular files: path -> content
    pc,                 \* main's position
    builds,             \* main: the list find_builds returned
    k,                  \* compare_checksums: index of the build being processed
    checksums,          \* {relative path: {build number: checksum}}
    file_sizes,         \* {relative path: {build number: size}}
    inconsistent_files, \* find_inconsistencies' three results
    missing_files,
    size_differences,
    args_output,        \* args.output: "unread", "none" or "path"
    summary,            \* <<>> or <<the summary generate_report printed>>
    report_file,        \* <<>> or <<the report document written>>
    exit_status,        \* "running", "0" or "1"
    error,              \* "none", "collector_io" or "report_io"
    stages,             \* history: the stages entered, in order
    hashed              \* history: the files calculate_file_checksum opened

vars == <<fsDirs, fsFiles, pc, builds, k, checksums, file_sizes,
          inconsistent_files, missing_files, size_differences, args_output,
          summary, report_file, exit_status, error, stages, hashed>>

fsVars == <<fsDirs, fsFiles>>

\* os.path.exists
Exists(p) == p \in fsDirs \/ p \in DOMAIN fsFiles

\* os.listdir(d): the names of the immediate children, as a set; the order
\* in which they are listed is chosen by the caller's environment.
ListDir(d) == {Basename(q) : q \in {q \in fsDirs \cup DOMAIN fsFiles : IsChildOf(q, d)}}

\* The bytes hashlib absorbs per read (line 17).
ChunkSize == 4096

\* sha256.update(block).  SHA-256 is modelled by an injective encoding of
\* the absorbed byte string: distinct contents have distinct digests.
RECURSIVE Sha256Update(_, _)
Sha256Update(h, block) ==
    IF block = <<>> THEN h
    ELSE Sha256Update(h * 3 + Head(block) + 1, Tail(block))

\* The loop of calculate_file_checksum over f.read(4096) until b"".
RECURSIVE ReadChunks(_, _)
ReadChunks(h, rest) ==
    IF rest = <<>> THEN h
    ELSE LET n == IF Len(rest) < ChunkSize THEN Len(rest) ELSE ChunkSize
         IN  ReadChunks(Sha256Update(h, SubSeq(rest, 1, n)),
                        SubSeq(rest, n + 1, Len(rest)))

calculate_file_checksum(file_path) == ReadChunks(0, fsFiles[file_path])

\* os.path.getsize
GetSize(file_path) == Len(fsFiles[file_path])

\* The orders in which os.listdir may list the set S.
RECURSIVE Orderings(_)
Orderings(S) ==
    IF S = {} THEN {<<>>}
    ELSE UNION {{<<x>> \o r : r \in Orderings(S \ {x})} : x \in S}

\* os.walk(directory), top down: the regular files of the directory in the
\* order of its listing, then the walk of each subdirectory, the
\* subdirectories in the order of the listing.  WalkOrders is the set of
\* the lists of file paths that get_all_files may build; SubWalks those of
\* a set of sibling directories.
RECURSIVE WalkOrders(_)
RECURSIVE SubWalks(_)
WalkOrders(directory) ==
    LET files == {p \in DOMAIN fsFiles : IsChildOf(p, directory)}
        dirs == {q \in fsDirs : IsChildOf(q, directory)}
    IN  {f \o r : f \in Orderings(files), r \in SubWalks(dirs)}

SubWalks(dirs) ==
    IF dirs = {} THEN {<<>>}
    ELSE UNION {{w \o r : w \in WalkOrders(d), r \in SubWalks(dirs \ {d})} :
                   d \in dirs}

\* get_all_files(directory): the lists it may return, one per order in
\* which the directories are listed.
get_all_files(directory) == WalkOrders(directory)

\* os.path.relpath of a file below base_dir
get_relative_path(file_path, base_dir) ==
    IF StartsWith(file_path, base_dir \o <<"/">>)
    THEN SubSeq(file_path, Len(base_dir) + 2, Len(file_path))
    ELSE file_path

\* item.startswith("build-") (line 42)
IsBuildDir(item) == StartsWith(item, BuildPrefix)

\* Lines 35-43 of find_builds, given the order in which os.listdir lists
\* the children: the joined paths of the children that pass the prefix test.
ListBuildDirs(dist_record_dir, version, listing) ==
    LET version_dir == PathJoin(dist_record_dir, version)
        items == SelectSeq(listing, IsBuildDir)
    IN  IF ~Exists(version_dir) THEN <<>>
        ELSE [i \in 1..Len(items) |-> PathJoin(version_dir, items[i])]

\* find_builds returning the builds in the order of the listing.
find_builds_listing_order(dist_record_dir, version, listing) ==
    ListBuildDirs(dist_record_dir, version, listing)

find_builds(dist_record_dir, version, listing) ==
    Sorted(ListBuildDirs(dist_record_dir, version, listing))

\* os.path.basename(build_path).replace("build-", "") (lines 59, 125)
BuildNumber(build_path) == StrReplace(Basename(build_path), BuildPrefix, <<>>)

\* The files one iteration of compare_checksums' loop visits: the three
\* output directories in the order of the code, each only if it exists.
WalkDir(build_path, name) ==
    IF Exists(PathJoin(build_path, name))
    THEN get_all_files(PathJoin(build_path, name))
    ELSE {<<>>}

BuildFiles(build_path) ==
    {a \o b \o c : a \in WalkDir(build_path, DistFirefox),
                   b \in WalkDir(build_path, DistChrome),
                   c \in WalkDir(build_path, DistZip)}

\* Lines 65-67 (and 73-75, 81-83) for one file: t is [cs, sz].
StoreChecksum(t, file_path, build_path) ==
    [t EXCEPT !.cs = TableSet(t.cs, get_relative_path(file_path, build_path),
                              BuildNumber(build_path),
                              calculate_file_checksum(file_path))]

StoreSize(t, file_path, build_path) ==
    [t EXCEPT !.sz = TableSet(t.sz, get_relative_path(file_path, build_path),
                              BuildNumber(build_path), GetSize(file_path))]

\* The first n files of the list processed completely.
RECURSIVE ProcessFiles(_, _, _, _)
ProcessFiles(t, files, n, build_path) ==
    IF n = 0 THEN t
    ELSE StoreSize(StoreChecksum(ProcessFiles(t, files, n - 1, build_path),
                                 files[n], build_path),
                   files[n], build_path)

\* ------------------------------------------------------------ the detector

\* Line 94: every build number that has an entry for some path.
AllBuildNumbers(cs) == UNION {DictKeys(cs[i].v) : i \in 1..Len(cs)}

\* IsMissing with <= for <: every path is flagged.
IsMissing_le(build_numbers, all_build_numbers) ==
    Len(build_numbers) <= Cardinality(all_build_numbers)

\* Line 100
IsMissing(build_numbers, all_build_numbers) ==
    Len(build_numbers) < Cardinality(all_build_numbers)

\* Lines 101-102
MissingInBuilds(build_numbers, all_build_numbers) ==
    Sorted(SetToSeq(all_build_numbers \ SeqToSet(build_numbers)))

\* IsInconsistent counting the entries, not the distinct checksums.
IsInconsistent_count(build_checksums) == Len(build_checksums) > 1

\* Lines 105-106
IsInconsistent(build_checksums) == Cardinality(DictValues(build_checksums)) > 1

\* HasSizeDifference computed on its own, outside the checksum test.
HasSizeDifference_alone(build_checksums, file_build_sizes) ==
    Cardinality(DictValues(file_build_sizes)) > 1

\* Lines 106-112: the size test is nested in the checksum test.
HasSizeDifference(build_checksums, file_build_sizes) ==
    IsInconsistent(build_checksums) /\ Cardinality(DictValues(file_build_sizes)) > 1

\* One iteration of the loop of line 96; acc is [inc, mis, sd, sz].  Reading
\* file_sizes[file_path] (line 110) adds an empty dict for a path the
\* defaultdict does not hold.
DetectFile(acc, file_path, build_checksums, all_build_numbers) ==
    LET build_numbers == DictKeyList(build_checksums)
        mis == IF IsMissing(build_numbers, all_build_numbers)
               THEN DictSet(acc.mis, file_path,
                            MissingInBuilds(build_numbers, all_build_numbers))
               ELSE acc.mis
        inc == IF IsInconsistent(build_checksums)
               THEN DictSet(acc.inc, file_path, build_checksums)
               ELSE acc.inc
        sz  == IF IsInconsistent(build_checksums) /\ ~DictHas(acc.sz, file_path)
               THEN Append(acc.sz, [k |-> file_path, v |-> <<>>])
               ELSE acc.sz
        file_build_sizes == DefaultGet(acc.sz, file_path)
        sd  == IF HasSizeDifference(build_checksums, file_build_sizes)
               THEN DictSet(acc.sd, file_path, file_build_sizes)
               ELSE acc.sd
    IN  [inc |-> inc, mis |-> mis, sd |-> sd, sz |-> sz]

RECURSIVE DetectLoop(_, _, _)
DetectLoop(cs, n, sz) ==
    IF n = 0 THEN [inc |-> <<>>, mis |-> <<>>, sd |-> <<>>, sz |-> sz]
    ELSE DetectFile(DetectLoop(cs, n - 1, sz), cs[n].k, cs[n].v, AllBuildNumbers(cs))

\* find_inconsistencies(checksums, file_sizes): the three findings, and
\* file_sizes as the call leaves it.
find_inconsistencies(cs, sz) == DetectLoop(cs, Len(cs), sz)

\* ------------------------------------------------------------ the reporter

\* Line 125
ReportBuildNumbers(bs) == [i \in 1..Len(bs) |-> BuildNumber(bs[i])]

\* Lines 127-142: the report document.
ReportDocument(inc, mis, sd, bs) ==
    [builds_analyzed |-> ReportBuildNumbers(bs),
     total_builds |-> Len(bs),
     inconsistent_files |-> [count |-> Len(inc), files |-> inc],
     missing_files |-> [count |-> Len(mis), files |-> mis],
     size_differences |-> [count |-> Len(sd), files |-> sd]]

\* Lines 145-159: what the console summary shows.
ConsoleSummary(inc, mis, sd, bs) ==
    [builds_analyzed |-> ReportBuildNumbers(bs),
     total_builds |-> Len(bs),
     inconsistent_count |-> Len(inc),
     missing_count |-> Len(mis),
     size_count |-> Len(sd),
     inconsistent_listing |-> inc]

\* ----------------------------------------------------------- initial states

VersionDir == PathJoin(RecordsRoot, Version)

\* The subsets of S of at most n elements.
RECURSIVE SubsetsUpTo(_, _)
SubsetsUpTo(S, n) ==
    IF n = 0 THEN {{}}
    ELSE LET prev == SubsetsUpTo(S, n - 1)
         IN  prev \cup {T \cup {x} : T \in prev, x \in S}

\* The directories above path p, up to the version directory.
RECURSIVE Ancestors(_)
Ancestors(p) ==
    IF Dirname(p) = VersionDir \/ LastSlash(p) = 0 THEN {}
    ELSE {Dirname(p)} \cup Ancestors(Dirname(p))

\* The places a regular file may be at: the candidate places of each
\* build directory, and dist-zip/a of any other child.
FilePaths(children) ==
    {PathJoin(PathJoin(VersionDir, c), f) :
        c \in {b \in children : IsBuildDir(b)}, f \in RelFiles}
    \cup {PathJoin(PathJoin(VersionDir, c), PathJoin(DistZip, <<"a">>)) :
             c \in {b \in children : ~IsBuildDir(b)}}

\* The contents a file at path p may have.
ContentsAt(p, children) ==
    IF \E c \in children, f \in VaryingFiles :
           IsBuildDir(c) /\ p = PathJoin(PathJoin(VersionDir, c), f)
    THEN Contents
    ELSE {<<0>>}

\* What main starts from, whatever the records tree holds.
InitRun ==
    /\ pc = "find_builds"
    /\ builds = <<>>
    /\ k = 1
    /\ checksums = <<>>
    /\ file_sizes = <<>>
    /\ inconsistent_files = <<>>
    /\ missing_files = <<>>
    /\ size_differences = <<>>
    /\ args_output = "unread"
    /\ summary = <<>>
    /\ report_file = <<>>
    /\ exit_status = "running"
    /\ error = "none"
    /\ stages = <<>>
    /\ hashed = {}

\* A records tree: the version directory may be absent; if present it has
\* some of the candidate children, which hold at most MaxFiles files.
Init ==
    /\ \E exists \in BOOLEAN, children \in SUBSET ChildNames :
         /\ exists \/ children = {}
         /\ \E S \in SubsetsUpTo(FilePaths(children), MaxFiles) :
              /\ fsFiles \in {f \in [S -> Contents] :
                                \A p \in S : f[p] \in ContentsAt(p, children)}
              /\ fsDirs = {RecordsRoot}
                            \cup (IF exists THEN {VersionDir} ELSE {})
                            \cup {PathJoin(VersionDir, c) : c \in children}
                            \cup UNION {Ancestors(p) : p \in S}
    /\ InitRun

\* ----------------------------------------------------------------- actions

\* The test of line 181 never taken.
NoBuilds_never(bs) == FALSE

\* Line 181: if not builds
NoBuilds(bs) == bs = <<>>

EnterStage(name) == IF name \in SeqToSet(stages) THEN stages ELSE Append(stages, name)

\* main, lines 180-182: find_builds returns an empty list and main exits
\* with status 1.
MainNoBuilds ==
    /\ pc = "find_builds"
    /\ \E listing \in Orderings(ListDir(VersionDir)) :
         LET bs == find_builds(RecordsRoot, Version, listing)
         IN  /\ NoBuilds(bs)
             /\ builds' = bs
    /\ pc' = "exited"
    /\ exit_status' = "1"
    /\ stages' = EnterStage("locator")
    /\ UNCHANGED <<fsVars, k, checksums, file_sizes, inconsistent_files,
                   missing_files, size_differences, args_output, summary,
                   report_file, error, hashed>>

\* main, lines 180-190: find_builds returns builds and main goes on to call
\* compare_checksums, which starts with empty tables (lines 51, 55).
MainFoundBuilds ==
    /\ pc = "find_builds"
    /\ \E listing \in Orderings(ListDir(VersionDir)) :
         LET bs == find_builds(RecordsRoot, Version, listing)
         IN  /\ ~NoBuilds(bs)
             /\ builds' = bs
    /\ pc' = "compare_checksums"
    /\ k' = 1
    /\ checksums' = <<>>
    /\ file_sizes' = <<>>
    /\ stages' = EnterStage("locator")
    /\ UNCHANGED <<fsVars, inconsistent_files, missing_files, size_differences,
                   args_output, summary, report_file, exit_status, error, hashed>>

\* compare_checksums, one iteration of the loop of line 58, every read
\* succeeding.
CollectBuild ==
    /\ pc = "compare_checksums"
    /\ k <= Len(builds)
    /\ \E files \in BuildFiles(builds[k]) :
       LET t == ProcessFiles([cs |-> checksums, sz |-> file_sizes], files,
                             Len(files), builds[k])
       IN  /\ checksums' = t.cs
           /\ file_sizes' = t.sz
           /\ hashed' = hashed \cup SeqToSet(files)
    /\ k' = k + 1
    /\ stages' = EnterStage("collector")
    /\ UNCHANGED <<fsVars, pc, builds, inconsistent_files, missing_files,
                   size_differences, args_output, summary, report_file,
                   exit_status, error>>

\* The exception swallowed: the rest of the build is skipped, the run goes on.
IOErrorOutcome_skip == [pc |-> "compare_checksums", exit_status |-> "running", k_step |-> 1]

\* What an exception raised by open, read or getsize does to the run:
\* nothing catches it, the interpreter ends with status 1.
IOErrorOutcome == [pc |-> "crashed", exit_status |-> "1", k_step |-> 0]

\* compare_checksums, an iteration in which reading (lines 15-18) or sizing
\* (os.path.getsize) the n-th file of the build raises OSError.
CollectIOError ==
    /\ pc = "compare_checksums"
    /\ k <= Len(builds)
    /\ \E files \in BuildFiles(builds[k]) :
           \E n \in 1..Len(files), at \in {"read", "size"} :
             LET before == ProcessFiles([cs |-> checksums, sz |-> file_sizes],
                                        files, n - 1, builds[k])
                 t == IF at = "size"
                      THEN StoreChecksum(before, files[n], builds[k])
                      ELSE before
             IN  /\ checksums' = t.cs
                 /\ file_sizes' = t.sz
                 /\ hashed' = hashed \cup {files[i] : i \in 1..n}
    /\ error' = "collector_io"
    /\ pc' = IOErrorOutcome.pc
    /\ exit_status' = IOErrorOutcome.exit_status
    /\ k' = k + IOErrorOutcome.k_step
    /\ stages' = EnterStage("collector")
    /\ UNCHANGED <<fsVars, builds, inconsistent_files, missing_files,
                   size_differences, args_output, summary, report_file>>

\* compare_checksums, line 85: the loop is over, the tables are returned.
CollectReturn ==
    /\ pc = "compare_checksums"
    /\ k > Len(builds)
    /\ pc' = "find_inconsistencies"
    /\ stages' = EnterStage("collector")
    /\ UNCHANGED <<fsVars, builds, k, checksums, file_sizes, inconsistent_files,
                   missing_files, size_differences, args_output, summary,
                   report_file, exit_status, error, hashed>>

\* main, line 194: find_inconsistencies.
Detect ==
    /\ pc = "find_inconsistencies"
    /\ LET r == find_inconsistencies(checksums, file_sizes)
       IN  /\ inconsistent_files' = r.inc
           /\ missing_files' = r.mis
           /\ size_differences' = r.sd
           /\ file_sizes' = r.sz
    /\ pc' = "generate_report"
    /\ stages' = EnterStage("detector")
    /\ UNCHANGED <<fsVars, builds, k, checksums, args_output, summary,
                   report_file, exit_status, error, hashed>>

\* main, lines 197-201: generate_report prints the summary and, with
\* --output, writes the report; main returns and the status is 0.
Report ==
    /\ pc = "generate_report"
    /\ \E out \in {"none", "path"} :
         /\ args_output' = out
         /\ report_file' =
              IF out = "path"
              THEN <<ReportDocument(inconsistent_files, missing_files,
                                    size_differences, builds)>>
              ELSE report_file
    /\ summary' = <<ConsoleSummary(inconsistent_files, missing_files,
                                   size_differences, builds)>>
    /\ pc' = "done"
    /\ exit_status' = "0"
    /\ stages' = EnterStage("reporter")
    /\ UNCHANGED <<fsVars, builds, k, checksums, file_sizes, inconsistent_files,
                   missing_files, size_differences, error, hashed>>

\* generate_report with --output when open(output_file, 'w') (line 163)
\* raises: the summary is already printed, no report is written.
ReportWriteError ==
    /\ pc = "generate_report"
    /\ args_output' = "path"
    /\ summary' = <<ConsoleSummary(inconsistent_files, missing_files,
                                   size_differences, builds)>>
    /\ error' = "report_io"
    /\ pc' = IOErrorOutcome.pc
    /\ exit_status' = IOErrorOutcome.exit_status
    /\ stages' = EnterStage("reporter")
    /\ UNCHANGED <<fsVars, builds, k, checksums, file_sizes, inconsistent_files,
                   missing_files, size_differences, report_file, hashed>>

Next ==
    \/ MainNoBuilds
    \/ MainFoundBuilds
    \/ CollectBuild
    \/ CollectIOError
    \/ CollectReturn
    \/ Detect
    \/ Report
    \/ ReportWriteError

Spec == Init /\ [][Next]_vars

\* ------------------------------------------- the detector on its own

\* The paths and build numbers of the tables the detector-only
\* specification draws; the build numbers are not in ascending order.
DetectorPaths == <<PathJoin(DistZip, <<"a">>), PathJoin(DistChrome, <<"a">>)>>

DetectorIdList == << <<"2">>, <<"1","0">>, <<"1">>, <<"3">>, <<"0">> >>

DetectorIds == SubSeq(DetectorIdList, 1, NumIds)

\* An entry's checksum and size; any pairing is an input of the function.
DetectorValues == {[c |-> 1, s |-> 1], [c |-> 1, s |-> 2], [c |-> 2, s |-> 1]}

Absent == [c |-> 0, s |-> 0]

\* The dict of path number p under the choice, field f of each entry.
RECURSIVE InnerDict(_, _, _, _)
InnerDict(choice, p, n, f) ==
    IF n = 0 THEN <<>>
    ELSE LET rest == InnerDict(choice, p, n - 1, f)
         IN  IF choice[<<p, n>>] = Absent THEN rest
             ELSE Append(rest, [k |-> DetectorIds[n], v |-> choice[<<p, n>>][f]])

RECURSIVE OuterDict(_, _, _)
OuterDict(choice, p, f) ==
    IF p = 0 THEN <<>>
    ELSE LET rest == OuterDict(choice, p - 1, f)
             inner == InnerDict(choice, p, NumIds, f)
         IN  IF inner = <<>> THEN rest
             ELSE Append(rest, [k |-> DetectorPaths[p], v |-> inner])

\* find_inconsistencies called on any pair of parallel tables.
InitDetector ==
    /\ fsDirs = {}
    /\ fsFiles = <<>>
    /\ pc = "find_inconsistencies"
    /\ builds = <<>>
    /\ k = 1
    /\ \E choice \in [(1..Len(DetectorPaths)) \X (1..NumIds) ->
                        DetectorValues \cup {Absent}] :
         /\ checksums = OuterDict(choice, Len(DetectorPaths), "c")
         /\ file_sizes = OuterDict(choice, Len(DetectorPaths), "s")
    /\ inconsistent_files = <<>>
    /\ missing_files = <<>>
    /\ size_differences = <<>>
    /\ args_output = "unread"
    /\ summary = <<>>
    /\ report_file = <<>>
    /\ exit_status = "running"
    /\ error = "none"
    /\ stages = <<>>
    /\ hashed = {}

NextDetector == Detect

SpecDetector == InitDetector /\ [][NextDetector]_vars

\* ------------------------------------------------------------- properties

\* Vocabulary of the properties.
Ran(stage) == stage \in SeqToSet(stages)

IdsOf(table, path) == DictKeys(DictGet(table, path))

HasEntry(table, path, id) == DictHas(table, path) /\ id \in IdsOf(table, path)

\* The build identifiers that have an entry for some path of the table.
ObservedIds == UNION {IdsOf(checksums, p) : p \in DictKeys(checksums)}

IsAscending(seq) == \A i \in 1..(Len(seq) - 1) : StrLess(seq[i], seq[i + 1])

\* C1: once find_inconsistencies has run, a path of the checksum table is a
\* key of the missing-files finding exactly when the build identifiers that
\* have an entry for it are a strict subset of the identifiers observed over
\* all paths; its value lists, in ascending order and each once, exactly the
\* observed identifiers without an entry for the path.  So an identifier
\* with no entry anywhere is in no missing list.
C1_MissingFiles ==
    Ran("detector") =>
        /\ DictKeys(missing_files) \subseteq DictKeys(checksums)
        /\ \A p \in DictKeys(checksums) :
             LET have == IdsOf(checksums, p)
             IN  /\ DictHas(missing_files, p)
                       <=> (have \subseteq ObservedIds /\ have # ObservedIds)
                 /\ DictHas(missing_files, p) =>
                       LET m == DictGet(missing_files, p)
                       IN  /\ IsAscending(m)
                           /\ SeqToSet(m) = ObservedIds \ have
        /\ \A p \in DictKeys(missing_files) :
             \A id \in SeqToSet(DictGet(missing_files, p)) : id \in ObservedIds

\* C1's case: a path lacking two of the observed builds next to a path
\* that lacks none.
C1_Witness ==
    /\ Ran("detector")
    /\ \E p \in DictKeys(missing_files) : Len(DictGet(missing_files, p)) >= 2
    /\ \E p \in DictKeys(checksums) : ~DictHas(missing_files, p)

\* C2: once find_inconsistencies has run, a path of the checksum table is a
\* key of the inconsistent-checksum finding exactly when two builds with an
\* entry for it carry different checksums; its value has exactly the builds
\* with an entry for the path, each with its checksum.
C2_InconsistentFiles ==
    Ran("detector") =>
        /\ DictKeys(inconsistent_files) \subseteq DictKeys(checksums)
        /\ \A p \in DictKeys(checksums) :
             LET cs == DictGet(checksums, p)
             IN  /\ DictHas(inconsistent_files, p)
                       <=> (\E a, b \in DictKeys(cs) : DictGet(cs, a) # DictGet(cs, b))
                 /\ DictHas(inconsistent_files, p) =>
                       LET inc == DictGet(inconsistent_files, p)
                       IN  /\ DictKeys(inc) = DictKeys(cs)
                           /\ \A id \in DictKeys(cs) : DictGet(inc, id) = DictGet(cs, id)

\* C2's case: an inconsistent path next to a path that several builds
\* hold with the same checksum.
C2_Witness ==
    /\ Ran("detector")
    /\ \E p \in DictKeys(inconsistent_files) : Len(DictGet(checksums, p)) >= 3
    /\ \E p \in DictKeys(checksums) :
         /\ ~DictHas(inconsistent_files, p)
         /\ Len(DictGet(checksums, p)) >= 2

\* The sizes of a path differ between the builds that have an entry for it.
SizesDiffer(p) ==
    /\ DictHas(file_sizes, p)
    /\ \E a, b \in IdsOf(file_sizes, p) :
         DictGet(DictGet(file_sizes, p), a) # DictGet(DictGet(file_sizes, p), b)

\* C3: once find_inconsistencies has run, a path is a key of the
\* size-difference finding exactly when it is a key of the
\* inconsistent-checksum finding and its builds carry different sizes; the
\* size-difference keys are a subset of the inconsistent-checksum keys.
C3_SizeDifferences ==
    Ran("detector") =>
        /\ DictKeys(size_differences) \subseteq DictKeys(inconsistent_files)
        /\ \A p \in DictKeys(checksums) :
             DictHas(size_differences, p)
                 <=> (DictHas(inconsistent_files, p) /\ SizesDiffer(p))

\* C3's case: a path whose checksums differ and sizes agree, next to a
\* path whose checksums agree and sizes differ; neither is a size difference.
C3_Witness ==
    /\ Ran("detector")
    /\ \E p \in DictKeys(inconsistent_files) : ~SizesDiffer(p)
    /\ \E p \in DictKeys(checksums) : ~DictHas(inconsistent_files, p) /\ SizesDiffer(p)
    /\ size_differences = <<>>

\* The children of the version directory that the locator is to return.
BuildChildren == {n \in ListDir(VersionDir) : StartsWith(n, BuildPrefix)}

\* No build exists for the version: no version directory, or no child of
\* it with the prefix.
ZeroBuilds == ~Exists(VersionDir) \/ BuildChildren = {}

StageOrder == <<"locator", "collector", "detector", "reporter">>

NothingComputed ==
    /\ hashed = {}
    /\ checksums = <<>> /\ file_sizes = <<>>
    /\ inconsistent_files = <<>> /\ missing_files = <<>> /\ size_differences = <<>>
    /\ summary = <<>>
    /\ report_file = <<>>

\* C5: once the locator has run, if no build exists the run has ended with
\* status 1 and only the locator ever ran: nothing hashed, no finding, no
\* summary, no report file.  If a build exists and no I/O error has
\* occurred, the stages entered so far are an initial part of locator,
\* collector, detector, reporter; the run has neither exited nor crashed,
\* it is at a stage that main goes on from until it is done, and it is done
\* exactly when the status is 0, which is after all four stages, with the
\* summary printed and the report file written exactly when --output was
\* given.
C5_ExitBehaviour ==
    pc # "find_builds" =>
        IF ZeroBuilds
        THEN /\ pc = "exited"
             /\ exit_status = "1"
             /\ stages = <<"locator">>
             /\ NothingComputed
             /\ ~ENABLED Next
        ELSE error = "none" =>
             /\ stages = SubSeq(StageOrder, 1, Len(stages))
             /\ pc \notin {"exited", "crashed"}
             /\ pc # "done" =>
                  /\ exit_status = "running"
                  /\ pc \in {"compare_checksums", "find_inconsistencies",
                             "generate_report"}
                  /\ pc = "compare_checksums" => k <= Len(builds) + 1
             /\ pc = "done" =>
                  /\ exit_status = "0"
                  /\ stages = StageOrder
                  /\ summary # <<>>
                  /\ report_file # <<>> <=> args_output = "path"

\* C5's case: the version directory exists and holds a file, yet no child
\* is a build, and the run has exited.
C5_Witness ==
    /\ pc = "exited"
    /\ Exists(VersionDir)
    /\ ListDir(VersionDir) # {}
    /\ DOMAIN fsFiles # {}

\* C7: an I/O error in compare_checksums ends the run: it has crashed with
\* a non-zero status, no step is possible, and neither the detector nor the
\* reporter has run: no finding, no summary, no report file.
C7_IOErrorFatal ==
    error = "collector_io" =>
        /\ pc = "crashed"
        /\ exit_status = "1"
        /\ ~Ran("detector") /\ ~Ran("reporter")
        /\ inconsistent_files = <<>> /\ missing_files = <<>> /\ size_differences = <<>>
        /\ summary = <<>>
        /\ report_file = <<>>
        /\ ~ENABLED Next

\* C7's case: the error comes after entries have been collected, while a
\* build is still to be processed.
C7_Witness ==
    /\ error = "collector_io"
    /\ checksums # <<>>
    /\ k < Len(builds)

\* C8: once the locator has run on an existing version directory, the
\* builds are exactly the children whose name has the prefix, joined to the
\* version directory, each once, in ascending order of the name (so the
\* list does not depend on the order of the listing).
C8_FindBuilds ==
    (pc # "find_builds" /\ Exists(VersionDir)) =>
        /\ SeqToSet(builds) = {PathJoin(VersionDir, n) : n \in BuildChildren}
        /\ IsAscending([i \in 1..Len(builds) |-> Basename(builds[i])])
        /\ IsAscending(builds)

\* C8's case: three builds next to a child that is no build.
C8_Witness ==
    /\ pc = "compare_checksums"
    /\ Len(builds) = 3
    /\ ListDir(VersionDir) # BuildChildren

\* A directory name without its "build-" prefix.
StripPrefix(name) ==
    IF StartsWith(name, BuildPrefix)
    THEN SubSeq(name, Len(BuildPrefix) + 1, Len(name))
    ELSE name

\* C6: the build identifiers that key the tables and that the summary and
\* the report list are the names of the build directories with the prefix
\* stripped and the rest unchanged.
C6_BuildIdentifier ==
    /\ \A p \in DictKeys(checksums) :
         IdsOf(checksums, p) \subseteq
             {StripPrefix(Basename(builds[i])) : i \in 1..Len(builds)}
    /\ \A p \in DictKeys(file_sizes) :
         IdsOf(file_sizes, p) \subseteq
             {StripPrefix(Basename(builds[i])) : i \in 1..Len(builds)}
    /\ summary # <<>> =>
         summary[1].builds_analyzed =
             [i \in 1..Len(builds) |-> StripPrefix(Basename(builds[i]))]
    /\ report_file # <<>> =>
         report_file[1].builds_analyzed =
             [i \in 1..Len(builds) |-> StripPrefix(Basename(builds[i]))]

\* The relative paths below the watched output directories.
WatchedPaths ==
    {p \in RelFiles :
        \E d \in {DistFirefox, DistChrome, DistZip} : StartsWith(p, d \o <<"/">>)}

\* Build directory b holds a file at relative path p.
Holds(b, p) == PathJoin(b, p) \in DOMAIN fsFiles

\* C4: once the detector has run, a path that one build lacks and every
\* other build holds is a key of the missing-files finding, with the list
\* of just that build's identifier.
C4_MissingInOneBuild ==
    Ran("detector") =>
        \A i \in 1..Len(builds), p \in WatchedPaths :
            ( /\ Len(builds) >= 2
              /\ ~Holds(builds[i], p)
              /\ \A j \in 1..Len(builds) : j # i => Holds(builds[j], p) )
            => /\ DictHas(missing_files, p)
               /\ DictGet(missing_files, p) = <<BuildNumber(builds[i])>>

\* C9: once the detector has run, the build identifiers of every checksum
\* mapping of the inconsistent-checksum finding, of every size mapping of
\* the size-difference finding and of every missing list are in ascending
\* order.
C9_FindingsOrdered ==
    Ran("detector") =>
        /\ \A p \in DictKeys(inconsistent_files) :
             IsAscending(DictKeyList(DictGet(inconsistent_files, p)))
        /\ \A p \in DictKeys(size_differences) :
             IsAscending(DictKeyList(DictGet(size_differences, p)))
        /\ \A p \in DictKeys(missing_files) :
             IsAscending(DictGet(missing_files, p))

\* C10: once compare_checksums has returned, the two tables have the same
\* (path, build) keys, every path maps at least one build, and a build has
\* an entry for a path exactly when it holds a file at that path below a
\* watched output directory; the detector leaves the tables as they are, so
\* that running it again yields the findings it has yielded.
C10_ParallelTables ==
    (pc = "find_inconsistencies" \/ Ran("detector")) =>
        /\ DictKeys(checksums) = DictKeys(file_sizes)
        /\ \A p \in DictKeys(checksums) :
             /\ IdsOf(checksums, p) = IdsOf(file_sizes, p)
             /\ IdsOf(checksums, p) # {}
        /\ DictKeys(checksums) \subseteq WatchedPaths
        /\ \A p \in DictKeys(checksums) :
             IdsOf(checksums, p) \subseteq {BuildNumber(builds[i]) : i \in 1..Len(builds)}
        /\ \A i \in 1..Len(builds), p \in WatchedPaths :
             HasEntry(checksums, p, BuildNumber(builds[i])) <=> Holds(builds[i], p)
        /\ Ran("detector") =>
             LET again == find_inconsistencies(checksums, file_sizes)
             IN  /\ again.sz = file_sizes
                 /\ again.inc = inconsistent_files
                 /\ again.mis = missing_files
                 /\ again.sd = size_differences

====
